---------------------------- MODULE Spec2Model ----------------------------
(***************************************************************************)
(* Model of pyselmc1.Device (src/pyselmc1/device.py): the DNC command      *)
(* dispatcher (send_dnc_cmd), the acknowledgement waiter (wait_for_ack),   *)
(* the position query (get_pos), the absolute move, the raw control bytes  *)
(* and the lifetime of the serial channel.                                 *)
(*                                                                         *)
(* The serial port is the environment: `rx' holds the lines the device has *)
(* put on the channel (as readline() will return them), `tx' the writes    *)
(* made since the current operation was called (each write a sequence of   *)
(* byte values).  The clock `now' is what time() returns, in whole         *)
(* seconds, counted from the entry of the innermost send_dnc_cmd (only     *)
(* differences of clock readings are used); a real-valued timeout is       *)
(* compared against whole seconds, so it is rounded up.                    *)
(* Strings are sequences of one-character strings.  Lengths are in the     *)
(* unit in which homing_velocity (0.1 m/s) is 1 unit per second.           *)
(***************************************************************************)
EXTENDS Integers, Sequences, FiniteSets, TLC

VARIABLES
  is_open,    \* serial_device is open
  scope,      \* "with": inside the with-block; "left": the block was left
  rx,         \* lines pending on the channel, oldest first
  tx,         \* writes to the channel since the operation was called
  now,        \* time(), seconds since the innermost send_dnc_cmd was entered
  pc,         \* "idle": between calls; "wait": in wait_for_ack's loop;
              \* "done": the method has just returned or raised
  call,       \* the Device method in progress (or the last one) and its arguments
  dnc,        \* the arguments of the innermost send_dnc_cmd activation
  time0,      \* wait_for_ack's time0
  rec,        \* wait_for_ack's rec: what receive_string returned last
  ev,         \* what the last step did: channel calls and exceptions, in order
  timeouts,   \* TimeoutErrors caught by send_dnc_cmd since the operation was called
  result,     \* how the last operation ended
  stale,      \* which lines were on the channel before the last frame was
              \* written: how many of rx, and whether rec was one
  device_id, rail_length, steps_per_meter   \* the session's configuration

vars == <<is_open, scope, rx, tx, now, pc, call, dnc, time0, rec, ev, timeouts,
          result, stale, device_id, rail_length, steps_per_meter>>

config == <<device_id, rail_length, steps_per_meter>>

---------------------------------------------------------------------------
(* Bounds of the model *)

MaxPending == 1      \* lines the channel buffers
MaxStep == 2         \* seconds that may pass during one readline()
MaxTimeout == 2      \* largest timeout argument of a direct send_dnc_cmd
MaxRetry == 2        \* largest retry_attempts argument of a direct send_dnc_cmd
MaxDigits == 2       \* longest position payload given to the decoder alone

(* Program constants.  default_timeout is in seconds; homing_velocity,    *)
(* 0.1 m/s, is 1 in the model's unit of length (0.1 m) per second.         *)

default_timeout == 5
default_retry_attempts == 3
homing_velocity == 1
STOP == 253
RESET == 254
BREAK == 255

---------------------------------------------------------------------------
(* Text *)

CR == "\r"
LF == "\n"

HexDigits == {"0","1","2","3","4","5","6","7","8","9",
              "A","B","C","D","E","F","a","b","c","d","e","f"}

Whitespace == {" ", CR, LF}

\* str.encode('ascii') on the characters a frame can hold
Ord(c) ==
  CASE c = "@" -> 64 [] c = CR -> 13 [] c = "," -> 44 [] c = "-" -> 45
    [] c = "0" -> 48 [] c = "1" -> 49 [] c = "2" -> 50 [] c = "3" -> 51
    [] c = "4" -> 52 [] c = "5" -> 53 [] c = "6" -> 54 [] c = "7" -> 55
    [] c = "8" -> 56 [] c = "9" -> 57
    [] c = "M" -> 77 [] c = "P" -> 80 [] c = "V" -> 86 [] c = "a" -> 97
    [] c = "b" -> 98 [] c = "r" -> 114

encode_ascii(s) == [i \in 1..Len(s) |-> Ord(s[i])]

DigitChar(d) == <<"0","1","2","3","4","5","6","7","8","9">>[d + 1]

RECURSIVE DecNat(_)
DecNat(n) == IF n < 10 THEN <<DigitChar(n)>>
             ELSE DecNat(n \div 10) \o <<DigitChar(n % 10)>>

\* '%d' % n
Dec(n) == IF n < 0 THEN <<"-">> \o DecNat(0 - n) ELSE DecNat(n)

\* str.rstrip()
RECURSIVE rstrip(_)
rstrip(s) == IF s # <<>> /\ s[Len(s)] \in Whitespace
             THEN rstrip(SubSeq(s, 1, Len(s) - 1)) ELSE s


---------------------------------------------------------------------------
(* Values *)

None == <<>>                 \* timeout=None; a finite timeout t is <<t>>

Timeouts == {None} \cup {<<t>> : t \in 0..MaxTimeout}

\* What readline() can return for a line of the device: the bytes up to and
\* including the newline.  A blank line, a bare ack, acks with a one-digit
\* hex, a two-digit hex, a signed and a non-hex payload, and an error code.
DeviceLines ==
  { <<LF>>,
    <<"0", CR, LF>>,
    <<"0", "F", LF>>,
    <<"0", "0", "7", LF>>,
    <<"0", "-", "1", LF>>,
    <<"0", "Z", LF>>,
    <<"3", LF>> }

\* Sessions: <<device_id, rail_length, steps_per_meter>>
Configs == { <<0, 1, 4>>, <<12, 2, 4>> }

Positions == {0 - 1, 2}
Velocities == {2}

NoDnc == [cmd |-> "", arg |-> <<>>, blocking |-> FALSE, timeout |-> None,
          retry_attempts |-> 0]

\* A method call: its name and arguments (position is also move_relative's
\* distance; timeout and retry_attempts are what it hands to send_dnc_cmd first)
Call(n, p, v, b, t, r) ==
  [name |-> n, position |-> p, velocity |-> v, blocking |-> b,
   timeout |-> t, retry_attempts |-> r]

NoCall == Call("none", 0, 1, FALSE, None, 0)

Result(k, v, n) == [kind |-> k, val |-> v, num |-> n]

Pending == Result("pending", <<>>, 0)

\* No line on the channel is older than the last write
NoStale == [pending |-> 0, rec |-> FALSE]

Failures == {"Exception", "ConnectionError", "ValueError", "TypeError", "TimeoutError"}

\* the least integer >= n / m, for n >= 0 and m > 0
CeilDiv(n, m) == (n + m - 1) \div m

Abs(n) == IF n < 0 THEN 0 - n ELSE n

RECURSIVE Pow2(_)
Pow2(n) == IF n = 0 THEN 1 ELSE 2 * Pow2(n - 1)

---------------------------------------------------------------------------
(* The channel *)

\* Device.send_string: one write of string + '\r', ASCII-encoded
send_string(t, string) == Append(t, encode_ascii(string \o <<CR>>))

\* Device.send_char: one write of the single byte char_no
send_char(t, char_no) == Append(t, <<char_no>>)

\* serial_device.readline(): the oldest pending line, or nothing when the
\* short read timeout passes with no data
readline == IF rx = <<>> THEN <<>> ELSE Head(rx)

\* Device.receive_string
receive_string == rstrip(readline)

\* A frame is written while the lines q are pending: nothing is read or
\* discarded, so all of q is older than the frame (b: rec, when a read of the
\* same step set it, was older than the frame before)
AtWrite(q, b) == [pending |-> Len(q), rec |-> b]

\* The line this readline() returns was pending before the last write
ReadsStale == rx # <<>> /\ stale.pending > 0

\* After a readline() that is followed by no write
AfterRead ==
  [pending |-> IF ReadsStale THEN stale.pending - 1 ELSE stale.pending,
   rec |-> ReadsStale]

\* Device.close: serial_device.close()
close(o) == FALSE

\* Faulty variant of __exit__: the channel is closed on a normal exit only
Device_exit_on_success(exc_type, o) == IF exc_type = "None" THEN close(o) ELSE o

\* Device.__exit__: closes, whatever exception leaves the block
Device_exit(exc_type, o) == close(o)

---------------------------------------------------------------------------
(* The dispatcher *)

\* Faulty variant of the frame: precision 0 renders the id 0 as no digit
Frame_empty_zero(c, a) ==
  <<"@">> \o (IF device_id = 0 THEN <<>> ELSE Dec(device_id)) \o <<c>> \o a

\* '@%.d' % self.device_id + cmd + arg
Frame(c, a) == <<"@">> \o Dec(device_id) \o <<c>> \o a

\* Faulty variants of on_timeout: one retry too many; the TimeoutError
\* raised again
on_timeout_one_more(retry_attempts) ==
  IF retry_attempts >= 0 THEN "retry" ELSE "ConnectionError"

on_timeout_reraise(retry_attempts) ==
  IF retry_attempts > 0 THEN "retry" ELSE "TimeoutError"

\* except TimeoutError: retry while budget remains, else ConnectionError
on_timeout(retry_attempts) ==
  IF retry_attempts > 0 THEN "retry" ELSE "ConnectionError"

\* One pass of wait_for_ack's loop, after receive_string returned r and
\* time() returned t.  With timeout None the operands of `&' are both
\* evaluated, and time0 + None is a TypeError.
wait_for_ack(r, t, t0, timeout) ==
  IF timeout = None THEN Result("TypeError", <<>>, 0)
  ELSE IF t >= t0 + timeout[1] THEN Result("TimeoutError", <<>>, 0)
  ELSE IF r = <<>> THEN Result("pass", <<>>, 0)
  ELSE IF r[1] = "0" THEN Result("str", Tail(r), 0)
  ELSE Result("Exception", <<r[1]>>, 0)

\* Faulty variant of send_dnc_cmd: the blocking flag is ignored
send_dnc_cmd_always_waits(c, a, b, timeout, r, t) ==
  [tx |-> send_string(t, Frame(c, a)),
   pc |-> "wait",
   dnc |-> [cmd |-> c, arg |-> a, blocking |-> b, timeout |-> timeout,
            retry_attempts |-> r],
   result |-> Pending]

\* send_dnc_cmd up to the first pass of the wait: the write, and for a
\* blocking command the entry into wait_for_ack (time0 = time())
send_dnc_cmd(c, a, b, timeout, r, t) ==
  [tx |-> send_string(t, Frame(c, a)),
   pc |-> IF b THEN "wait" ELSE "done",
   dnc |-> [cmd |-> c, arg |-> a, blocking |-> b, timeout |-> timeout,
            retry_attempts |-> r],
   result |-> IF b THEN Pending ELSE Result("None", <<>>, 0)]

Enter(D) ==
  /\ tx' = D.tx
  /\ pc' = D.pc
  /\ dnc' = D.dnc
  /\ result' = D.result
  /\ now' = 0
  /\ time0' = 0

\* A caller may call a method when none is in progress and the port is open
CanCall == pc = "idle" /\ is_open

\* The caller has taken what the method returned or raised and goes on; the
\* record of the call is dropped
Resume ==
  /\ pc = "done"
  /\ pc' = "idle"
  /\ call' = NoCall
  /\ dnc' = NoDnc
  /\ result' = Pending
  /\ tx' = <<>>
  /\ rec' = <<>>
  /\ ev' = <<>>
  /\ now' = 0
  /\ time0' = 0
  /\ timeouts' = 0
  /\ stale' = NoStale
  /\ UNCHANGED <<is_open, scope, rx, config>>

\* Faulty variant of a call: the input is flushed before the frame is written
Begin_flushing(c) ==
  /\ pc = "idle" /\ is_open
  /\ call' = c
  /\ timeouts' = 0
  /\ rec' = <<>>
  /\ ev' = <<"write">>
  /\ rx' = <<>>
  /\ stale' = AtWrite(rx', FALSE)
  /\ UNCHANGED <<is_open, scope, config>>

Begin(c) ==
  /\ CanCall
  /\ call' = c
  /\ timeouts' = 0
  /\ rec' = <<>>
  /\ ev' = <<"write">>
  /\ stale' = AtWrite(rx, FALSE)
  /\ UNCHANGED <<is_open, scope, rx, config>>

\* send_dnc_cmd called directly, here as init does: cmd '1', arg '0'
Call_send_dnc_cmd(b, timeout, r) ==
  /\ Begin(Call("send_dnc_cmd", 0, 1, b, timeout, r))
  /\ Enter(send_dnc_cmd("1", <<"0">>, b, timeout, r, <<>>))

---------------------------------------------------------------------------
(* The position query and the moves *)

HexVal(c) ==
  CASE c = "0" -> 0 [] c = "1" -> 1 [] c = "2" -> 2 [] c = "3" -> 3
    [] c = "4" -> 4 [] c = "5" -> 5 [] c = "6" -> 6 [] c = "7" -> 7
    [] c = "8" -> 8 [] c = "9" -> 9
    [] c \in {"A", "a"} -> 10 [] c \in {"B", "b"} -> 11
    [] c \in {"C", "c"} -> 12 [] c \in {"D", "d"} -> 13
    [] c \in {"E", "e"} -> 14 [] c \in {"F", "f"} -> 15

Signs == {"+", "-"}

\* s without its sign
Unsigned(s) == IF s # <<>> /\ s[1] \in Signs THEN Tail(s) ELSE s

\* int(s, 16) accepts s: an optional sign and one or more hex digits (the
\* lines of the model hold no 0x prefix, underscore or leading blank, which
\* int() accepts too)
IsHex(s) == Unsigned(s) # <<>> /\ \A i \in 1..Len(Unsigned(s)) : Unsigned(s)[i] \in HexDigits

RECURSIVE HexNat(_)
HexNat(s) == IF s = <<>> THEN 0
             ELSE 16 * HexNat(SubSeq(s, 1, Len(s) - 1)) + HexVal(s[Len(s)])

\* int(s, 16) of a string it accepts
int16(s) == IF s # <<>> /\ s[1] = "-" THEN 0 - HexNat(Tail(s))
            ELSE HexNat(Unsigned(s))

\* get_pos's "hex two's complement to int": pos_stp of a hex string
pos_stp_of(ret_string) ==
  LET u == int16(ret_string)
  IN IF u >= Pow2(Len(ret_string) * 4) THEN u - Pow2(Len(ret_string) * 4) ELSE u

\* Faulty variant of get_pos: a payload int() rejects is read as position 0
get_pos_swallow(ret_string) ==
  IF IsHex(ret_string) THEN Result("float", <<>>, pos_stp_of(ret_string))
  ELSE Result("float", <<>>, 0)

\* get_pos after send_dnc_cmd returned ret_string: ValueError from int(), or
\* the position pos_stp / steps_per_meter (num holds pos_stp)
get_pos(ret_string) ==
  IF IsHex(ret_string) THEN Result("float", <<>>, pos_stp_of(ret_string))
  ELSE Result("ValueError", <<>>, 0)

\* Faulty variant of move_absolute: a failed position query is taken as
\* position 0
move_absolute_swallow(p, position, velocity, blocking, t) ==
  LET timeout == default_timeout
                 + CeilDiv(Abs(position * steps_per_meter - p.num),
                           velocity * steps_per_meter)
      arg == Dec(position * steps_per_meter) \o <<",">>
             \o Dec(velocity * steps_per_meter)
  IN send_dnc_cmd("M", arg, blocking, <<timeout>>, default_retry_attempts, t)

\* move_absolute after get_pos ended as p: the exception goes on to the
\* caller, or the 'M' command is dispatched
move_absolute(p, position, velocity, blocking, t) ==
  IF p.kind # "float"
  THEN [tx |-> t, pc |-> "done", dnc |-> dnc, result |-> p]
  ELSE LET timeout == default_timeout
                      + CeilDiv(Abs(position * steps_per_meter - p.num),
                                velocity * steps_per_meter)
           arg == Dec(position * steps_per_meter) \o <<",">>
                  \o Dec(velocity * steps_per_meter)
       IN send_dnc_cmd("M", arg, blocking, <<timeout>>, default_retry_attempts, t)

Call_get_pos ==
  /\ Begin(Call("get_pos", 0, 1, TRUE, <<default_timeout>>, default_retry_attempts))
  /\ Enter(send_dnc_cmd("P", <<>>, TRUE, <<default_timeout>>,
                        default_retry_attempts, <<>>))

Call_move_absolute(position, velocity, blocking) ==
  /\ Begin(Call("move_absolute", position, velocity, blocking,
                <<default_timeout>>, default_retry_attempts))
  /\ Enter(send_dnc_cmd("P", <<>>, TRUE, <<default_timeout>>,
                        default_retry_attempts, <<>>))

\* Faulty variant of move_relative: dispatched with the default retry budget
Call_move_relative_retrying(distance, velocity, blocking) ==
  LET timeout == default_timeout + CeilDiv(Abs(distance), velocity)
      arg == Dec(distance * steps_per_meter) \o <<",">>
             \o Dec(velocity * steps_per_meter)
  IN /\ Begin(Call("move_relative", distance, velocity, blocking, <<timeout>>,
                   default_retry_attempts))
     /\ Enter(send_dnc_cmd("a", arg, blocking, <<timeout>>,
                           default_retry_attempts, <<>>))

\* Device.move_relative
Call_move_relative(distance, velocity, blocking) ==
  LET timeout == default_timeout + CeilDiv(Abs(distance), velocity)
      arg == Dec(distance * steps_per_meter) \o <<",">>
             \o Dec(velocity * steps_per_meter)
  IN /\ Begin(Call("move_relative", distance, velocity, blocking, <<timeout>>, 0))
     /\ Enter(send_dnc_cmd("a", arg, blocking, <<timeout>>, 0, <<>>))

\* Faulty variant of homing: the rail's travel time is left out of the timeout
Call_homing_default_timeout(blocking) ==
  /\ Begin(Call("homing", 0, 1, blocking, <<default_timeout>>,
                default_retry_attempts))
  /\ Enter(send_dnc_cmd("r", <<"1">>, blocking, <<default_timeout>>,
                        default_retry_attempts, <<>>))

\* Device.homing
Call_homing(blocking) ==
  LET timeout == default_timeout + CeilDiv(rail_length, homing_velocity)
  IN /\ Begin(Call("homing", 0, 1, blocking, <<timeout>>, default_retry_attempts))
     /\ Enter(send_dnc_cmd("r", <<"1">>, blocking, <<timeout>>,
                           default_retry_attempts, <<>>))

---------------------------------------------------------------------------
(* The control bytes *)

\* Faulty variant of cmd_stop: the reset code is sent
cmd_stop_wrong_byte(t) == send_char(t, RESET)

cmd_stop(t) == send_char(t, STOP)
cmd_reset(t) == send_char(t, RESET)
cmd_break(t) == send_char(t, BREAK)

ControlByte(name, t) ==
  /\ Begin(Call(name, 0, 1, FALSE, None, 0))
  /\ tx' = t
  /\ result' = Result("None", <<>>, 0)
  /\ pc' = "done"
  /\ UNCHANGED <<dnc, now, time0>>

Call_cmd_stop == ControlByte("cmd_stop", cmd_stop(<<>>))
Call_cmd_reset == ControlByte("cmd_reset", cmd_reset(<<>>))
Call_cmd_break == ControlByte("cmd_break", cmd_break(<<>>))

---------------------------------------------------------------------------
(* The acknowledgement waiter, one readline() per step; d seconds pass *)

Outcome(d) == wait_for_ack(receive_string, now + d, time0, dnc.timeout)

Read ==
  /\ pc = "wait"
  /\ rx' = IF rx = <<>> THEN rx ELSE Tail(rx)
  /\ rec' = receive_string

\* The same, in a step that leaves this wait_for_ack and enters the next: rec
\* is a local of the activation that ended
ReadLast ==
  /\ pc = "wait"
  /\ rx' = IF rx = <<>> THEN rx ELSE Tail(rx)
  /\ rec' = <<>>

\* an exception, or a value, leaves the method in progress, d seconds after
\* the last clock reading
Leave(r, e, d) ==
  /\ Read
  /\ pc' = "done"
  /\ result' = r
  /\ ev' = e
  /\ now' = now + d
  /\ stale' = AfterRead
  /\ UNCHANGED <<is_open, scope, tx, call, dnc, time0, config>>

\* Faulty variant of the loop: time0 = time() is taken anew on every pass,
\* so the time waited is counted from the last pass
AckPass_restarts(d) ==
  /\ Read
  /\ Outcome(d).kind = "pass"
  /\ now' = time0
  /\ ev' = <<"readline">>
  /\ stale' = AfterRead
  /\ UNCHANGED <<is_open, scope, tx, pc, call, dnc, time0, timeouts, result, config>>

\* elif rec == '': pass
AckPass(d) ==
  /\ Read
  /\ Outcome(d).kind = "pass"
  /\ now' = now + d
  /\ ev' = <<"readline">>
  /\ stale' = AfterRead
  /\ UNCHANGED <<is_open, scope, tx, pc, call, dnc, time0, timeouts, result, config>>

\* raise TimeoutError, caught by send_dnc_cmd: the command is sent again
AckTimeoutRetry(d) ==
  /\ ReadLast
  /\ Outcome(d).kind = "TimeoutError"
  /\ on_timeout(dnc.retry_attempts) = "retry"
  /\ Enter(send_dnc_cmd(dnc.cmd, dnc.arg, dnc.blocking, dnc.timeout,
                        dnc.retry_attempts - 1, tx))
  /\ timeouts' = timeouts + 1
  /\ ev' = <<"readline", "TimeoutError", "write">>
  /\ stale' = AtWrite(rx', FALSE)
  /\ UNCHANGED <<is_open, scope, call, config>>

\* raise TimeoutError, caught by send_dnc_cmd: no retry is left
AckTimeoutExhausted(d) ==
  /\ Outcome(d).kind = "TimeoutError"
  /\ on_timeout(dnc.retry_attempts) # "retry"
  /\ Leave(Result(on_timeout(dnc.retry_attempts), <<>>, 0),
           <<"readline", "TimeoutError", on_timeout(dnc.retry_attempts)>>, d)
  /\ timeouts' = timeouts + 1

\* raise Exception('MC1 error code: %s!' % rec[0]); nothing catches it
AckDeviceError(d) ==
  /\ Outcome(d).kind = "Exception"
  /\ Leave(Outcome(d), <<"readline", "Exception">>, d)
  /\ UNCHANGED timeouts

\* time0 + None: TypeError; nothing catches it
AckTypeError(d) ==
  /\ Outcome(d).kind = "TypeError"
  /\ Leave(Outcome(d), <<"readline", "TypeError">>, d)
  /\ UNCHANGED timeouts

\* return rec[1:]: send_dnc_cmd returns it; the methods that only dispatch
\* drop it and return None
AckReturn(d) ==
  /\ Outcome(d).kind = "str"
  /\ \/ call.name \in {"move_relative", "homing"}
     \/ call.name = "move_absolute" /\ dnc.cmd = "M"
     \/ call.name = "send_dnc_cmd"
  /\ Leave(IF call.name = "send_dnc_cmd" THEN Outcome(d) ELSE Result("None", <<>>, 0),
           <<"readline", "return">>, d)
  /\ UNCHANGED timeouts

\* return rec[1:] to get_pos
AckGetPos(d) ==
  /\ Outcome(d).kind = "str"
  /\ call.name = "get_pos"
  /\ Leave(get_pos(Outcome(d).val), <<"readline", "return">>, d)
  /\ UNCHANGED timeouts

\* return rec[1:] to the get_pos of move_absolute
AckMoveAbsolute(d) ==
  /\ Outcome(d).kind = "str"
  /\ call.name = "move_absolute" /\ dnc.cmd = "P"
  /\ LET D == move_absolute(get_pos(Outcome(d).val), call.position,
                            call.velocity, call.blocking, tx)
     IN /\ IF D.pc = "wait" THEN ReadLast ELSE Read
        /\ Enter(D)
        /\ ev' = IF D.tx = tx THEN <<"readline", "return", D.result.kind>>
                 ELSE <<"readline", "return", "write">>
        /\ stale' = IF D.tx = tx THEN AfterRead
                    ELSE AtWrite(rx', D.pc # "wait" /\ ReadsStale)
  /\ UNCHANGED <<is_open, scope, call, timeouts, config>>

---------------------------------------------------------------------------
(* The lifetime of the channel *)

\* What the last method left behind is dropped from the record once the
\* channel is closed; how it ended is kept
Closed ==
  /\ ev' = <<"close">>
  /\ tx' = <<>>
  /\ rec' = <<>>
  /\ dnc' = NoDnc
  /\ timeouts' = 0
  /\ now' = 0
  /\ time0' = 0
  /\ stale' = NoStale
  /\ UNCHANGED <<rx, pc, call, result, config>>

\* close() called by the caller
Close ==
  /\ pc # "wait"
  /\ is_open' = close(is_open)
  /\ Closed
  /\ UNCHANGED scope

\* The with-block is left, after its last method returned or with the
\* exception a method raised: __exit__ runs
WithExit ==
  /\ pc # "wait"
  /\ scope = "with"
  /\ scope' = "left"
  /\ is_open' = Device_exit(IF result.kind \in Failures THEN result.kind
                            ELSE "None", is_open)
  /\ Closed

---------------------------------------------------------------------------
(* The device *)

\* A line of the device arrives (one that arrives as a method ends is taken
\* to arrive once the caller has gone on)
DeviceSend(line) ==
  /\ is_open
  /\ pc # "done"
  /\ Len(rx) < MaxPending
  /\ rx' = Append(rx, line)
  /\ UNCHANGED <<is_open, scope, tx, now, pc, call, dnc, time0, rec, ev,
                 timeouts, result, stale, config>>

---------------------------------------------------------------------------

Init ==
  /\ is_open = TRUE
  /\ scope = "with"
  /\ rx = <<>>
  /\ tx = <<>>
  /\ now = 0
  /\ pc = "idle"
  /\ call = NoCall
  /\ dnc = NoDnc
  /\ time0 = 0
  /\ rec = <<>>
  /\ ev = <<>>
  /\ timeouts = 0
  /\ result = Pending
  /\ stale = NoStale
  /\ \E c \in Configs :
        device_id = c[1] /\ rail_length = c[2] /\ steps_per_meter = c[3]

Next ==
  \/ \E b \in BOOLEAN, t \in Timeouts, r \in 0..MaxRetry : Call_send_dnc_cmd(b, t, r)
  \/ Call_get_pos
  \/ \E p \in Positions, v \in Velocities, b \in BOOLEAN : Call_move_absolute(p, v, b)
  \/ \E p \in Positions, v \in Velocities, b \in BOOLEAN : Call_move_relative(p, v, b)
  \/ \E b \in BOOLEAN : Call_homing(b)
  \/ Resume
  \/ Call_cmd_stop
  \/ Call_cmd_reset
  \/ Call_cmd_break
  \/ \E d \in 0..MaxStep : AckPass(d)
  \/ \E d \in 0..MaxStep : AckTimeoutRetry(d)
  \/ \E d \in 0..MaxStep : AckTimeoutExhausted(d)
  \/ \E d \in 0..MaxStep : AckDeviceError(d)
  \/ \E d \in 0..MaxStep : AckTypeError(d)
  \/ \E d \in 0..MaxStep : AckReturn(d)
  \/ \E d \in 0..MaxStep : AckGetPos(d)
  \/ \E d \in 0..MaxStep : AckMoveAbsolute(d)
  \/ Close
  \/ WithExit
  \/ \E line \in DeviceLines : DeviceSend(line)

Spec == Init /\ [][Next]_vars

---------------------------------------------------------------------------
(* The dispatcher alone, called directly, under a clock that moves on *)

\* One pass of the loop of a send_dnc_cmd's wait, taking d seconds
Poll(d) ==
  \/ AckPass(d) \/ AckTimeoutRetry(d) \/ AckTimeoutExhausted(d)
  \/ AckDeviceError(d) \/ AckTypeError(d) \/ AckReturn(d)

\* A pass during which the clock moves on
Progress == \E d \in 1..MaxStep : Poll(d)

\* One line of each kind the waiter tells apart: blank, success, error
LiveLines == { <<LF>>, <<"0", "F", LF>>, <<"3", LF>> }

NextLive ==
  \/ \E b \in BOOLEAN, t \in Timeouts, r \in 0..MaxRetry : Call_send_dnc_cmd(b, t, r)
  \/ Resume
  \/ \E d \in 0..MaxStep : Poll(d)
  \/ \E line \in LiveLines : DeviceSend(line)

\* readline() returns within the port's read timeout (0.2 s) and time()
\* moves on: the passes of a wait cannot all fall within the same second
SpecLive == Init /\ [][NextLive]_vars /\ WF_vars(Progress)

---------------------------------------------------------------------------
(* The position decoder alone: get_pos applied to every hex payload of up  *)
(* to MaxDigits digits, as received in a success ack of the 'P' command.   *)

UpperHex == {"0","1","2","3","4","5","6","7","8","9","A","B","C","D","E","F"}

HexPayloads == UNION { [1..k -> UpperHex] : k \in 1..MaxDigits }

InitPos ==
  /\ \E c \in Configs :
        device_id = c[1] /\ rail_length = c[2] /\ steps_per_meter = c[3]
  /\ is_open = TRUE
  /\ scope = "with"
  /\ rx = <<>>
  /\ tx = <<encode_ascii(Frame("P", <<>>) \o <<CR>>)>>
  /\ now = 0
  /\ pc = "wait"
  /\ call = Call("get_pos", 0, 1, TRUE, <<default_timeout>>, default_retry_attempts)
  /\ dnc = [cmd |-> "P", arg |-> <<>>, blocking |-> TRUE,
            timeout |-> <<default_timeout>>,
            retry_attempts |-> default_retry_attempts]
  /\ time0 = 0
  /\ \E h \in HexPayloads : rec = <<"0">> \o h
  /\ ev = <<"readline">>
  /\ timeouts = 0
  /\ result = Pending
  /\ stale = NoStale

\* wait_for_ack returns rec[1:] and get_pos decodes it
DecodePos ==
  /\ pc = "wait"
  /\ call.name = "get_pos"
  /\ rx = <<>> /\ rec # <<>> /\ rec[1] = "0"
  /\ pc' = "done"
  /\ result' = get_pos(Tail(rec))
  /\ ev' = <<"readline", "return">>
  /\ UNCHANGED <<is_open, scope, rx, tx, now, call, dnc, time0, rec, timeouts,
                 stale, config>>

NextPos == DecodePos

SpecPos == InitPos /\ [][NextPos]_vars

---------------------------------------------------------------------------
(* Properties *)

\* The frames as written on the wire
WireFrame(c, a) == encode_ascii(Frame(c, a) \o <<CR>>)

PFrame == WireFrame("P", <<>>)

MFrame == WireFrame("M", Dec(call.position * steps_per_meter) \o <<",">>
                         \o Dec(call.velocity * steps_per_meter))

\* The methods that dispatch one command
OneCommand == {"send_dnc_cmd", "get_pos", "move_relative", "homing"}

\* The waiter reads a line of the device in this step
ReadsLine == pc = "wait" /\ rx # <<>> /\ rx' = Tail(rx)

\* C1: a blocking dispatch with retry budget N whose attempts all end in an
\* acknowledgement timeout transmits the frame exactly N+1 times, the budget
\* going down by one per retry, and then fails with ConnectionError.
C1_ExactlyNPlusOneTransmissions ==
  (call.name \in OneCommand /\ call.blocking /\ tx # <<>>) =>
    /\ \A i \in 1..Len(tx) : tx[i] = tx[1]
    /\ pc = "wait" =>
         /\ Len(tx) = timeouts + 1
         /\ dnc.retry_attempts = call.retry_attempts - timeouts
    /\ (pc = "done" /\ timeouts = Len(tx)) =>
         /\ result.kind = "ConnectionError"
         /\ Len(tx) = call.retry_attempts + 1
    /\ result.kind = "ConnectionError" =>
         /\ timeouts = call.retry_attempts + 1
         /\ Len(tx) = call.retry_attempts + 1

C1_Witness ==
  /\ call.name = "send_dnc_cmd" /\ call.retry_attempts = 2
  /\ result.kind = "ConnectionError"
  /\ Len(tx) = 3 /\ timeouts = 3

C4_NonBlocking ==
  [][(\E t \in Timeouts, r \in 0..MaxRetry : Call_send_dnc_cmd(FALSE, t, r)) =>
       /\ tx' = <<WireFrame("1", <<"0">>)>>
       /\ rx' = rx
       /\ pc' = "done"
       /\ result' = Result("None", <<>>, 0)
       /\ ev' = <<"write">>
       /\ timeouts' = 0]_vars

C4_Witness ==
  /\ call.name = "send_dnc_cmd" /\ ~call.blocking
  /\ call.timeout = <<0>> /\ call.retry_attempts = 2
  /\ pc = "done" /\ result.kind = "None" /\ Len(tx) = 1 /\ rx # <<>>

\* C7: in move_absolute the 'M' frame is written only by the step in which
\* the 'P' query returns a success ack with a decodable payload; while the
\* query is in progress, and after it failed, only 'P' frames were written.
C7_QueryBeforeMove ==
  [][(call'.name = "move_absolute") =>
       /\ dnc'.cmd = "P" => \A i \in 1..Len(tx') : tx'[i] = PFrame
       /\ result'.kind \in {"ValueError", "Exception"} /\ dnc.cmd = "P"
            => dnc'.cmd # "M"
       /\ (dnc'.cmd = "M" /\ dnc.cmd # "M") =>
            /\ call' = call /\ pc = "wait" /\ dnc.cmd = "P"
            /\ tx # <<>> /\ \A i \in 1..Len(tx) : tx[i] = PFrame
            /\ receive_string # <<>> /\ receive_string[1] = "0"
            /\ IsHex(Tail(receive_string))
            /\ tx' = Append(tx, MFrame)
       /\ dnc'.cmd = "M" => tx'[1] = PFrame]_vars

C7_Witness ==
  /\ call.name = "move_absolute" /\ ~call.blocking
  /\ dnc.cmd = "M" /\ Len(tx) = 3 /\ tx[2] = PFrame /\ tx[3] = MFrame
  /\ result.kind = "None"

\* C9: once the with-block is left the channel is closed, however the block
\* was left; a closed channel stays closed, also under a further close().
C9_ClosedOnExit ==
  [][/\ scope' = "left" => ~is_open'
     /\ ~is_open => ~is_open'
     /\ (Close \/ WithExit) => ~is_open']_vars

C9_Witness ==
  /\ scope = "left" /\ ~is_open
  /\ result.kind = "Exception" /\ call.name = "get_pos"

\* C10: cmd_stop, cmd_reset and cmd_break each write the single byte 253,
\* 254, 255 and nothing else, read nothing, leave the pending lines where
\* they are and return at once.
ControlPost(b) ==
  /\ tx' = << <<b>> >>
  /\ rx' = rx
  /\ pc' = "done"
  /\ result' = Result("None", <<>>, 0)
  /\ timeouts' = 0 /\ ev' = <<"write">>

C10_ControlBytes ==
  [][/\ Call_cmd_stop => ControlPost(253)
     /\ Call_cmd_reset => ControlPost(254)
     /\ Call_cmd_break => ControlPost(255)]_vars

C10_Witness ==
  /\ call.name = "cmd_stop" /\ tx = << <<253>> >>
  /\ rx # <<>> /\ result.kind = "None"

\* C2: whenever the waiter of a blocking dispatch (with a timeout above 0)
\* reads a non-empty line that does not start with '0', the dispatch ends at
\* once with the device's error carrying that character, and nothing more is
\* transmitted.
C2_DeviceErrorImmediate ==
  [][(ReadsLine /\ dnc.timeout # None /\ dnc.timeout # <<0>>
      /\ receive_string # <<>> /\ receive_string[1] # "0") =>
       /\ pc' = "done"
       /\ result' = Result("Exception", <<receive_string[1]>>, 0)
       /\ tx' = tx
       /\ timeouts' = timeouts]_vars

\* C5: whenever wait_for_ack (with a timeout above 0) reads a non-empty line
\* that starts with '0', it
\* returns the rest of the line at once, raising no TimeoutError, however
\* much time has passed: nothing is transmitted again, and a direct
\* send_dnc_cmd returns that payload.
C5_AckReturnsPayload ==
  [][(ReadsLine /\ dnc.timeout # None /\ dnc.timeout # <<0>>
      /\ receive_string # <<>> /\ receive_string[1] = "0") =>
       /\ timeouts' = timeouts
       /\ call.name = "send_dnc_cmd" =>
            /\ pc' = "done"
            /\ result' = Result("str", Tail(receive_string), 0)
            /\ tx' = tx]_vars

\* C6: within one wait (with a timeout above 0) the deadline time0 + timeout stays where it was set
\* at entry; an empty read before the deadline keeps the wait going; an empty
\* read at or after it ends the wait with TimeoutError; and TimeoutError is
\* raised only after an empty read.
C6_TimeoutOnlyOnEmptyRead ==
  [][(pc = "wait" /\ dnc.timeout # None /\ dnc.timeout # <<0>>) =>
       /\ (pc' = "wait" /\ tx' = tx) =>
            (time0' = time0 /\ dnc' = dnc /\ now' >= now /\ timeouts' = timeouts)
       /\ (pc' = "wait" /\ tx' = tx /\ rx' = rx) =>
            now' < time0 + dnc.timeout[1]
       /\ timeouts' # timeouts =>
            (timeouts' = timeouts + 1 /\ receive_string = <<>>)]_vars

\* C8: get_pos reads an N-digit hex payload with unsigned value u as the
\* two's-complement number of 4N bits: u - 2^(4N) when u >= 2^(4N-1), else u.
C8_TwosComplement ==
  (call.name = "get_pos" /\ result.kind = "float" /\ rec # <<>>) =>
    LET N == Len(Tail(rec))
        u == int16(Tail(rec))
    IN result.num = IF u >= Pow2(4 * N - 1) THEN u - Pow2(4 * N) ELSE u

\* C11: homing dispatches 'r' (argument '1') with the timeout
\* default_timeout + rail_length / homing_velocity, and every attempt of the
\* call, the first and each retry, waits with that same timeout.
C11_HomingTimeout ==
  (call.name = "homing" /\ tx # <<>>) =>
    /\ dnc.cmd = "r" /\ dnc.arg = <<"1">>
    /\ dnc.timeout = <<default_timeout + rail_length \div homing_velocity>>
    /\ dnc.timeout = IF rail_length = 1 THEN <<6>> ELSE <<7>>
    /\ \A i \in 1..Len(tx) : tx[i] = WireFrame("r", <<"1">>)
    /\ pc = "wait" => dnc.retry_attempts = default_retry_attempts - (Len(tx) - 1)

C11_Witness ==
  /\ call.name = "homing" /\ pc = "wait"
  /\ rail_length = 2 /\ timeouts = 2 /\ Len(tx) = 3
  /\ dnc.timeout = <<7>> /\ now = 6

C13_SameFrameEveryAttempt ==
  [][/\ (call'.name = "send_dnc_cmd" /\ tx' # <<>>) =>
          \A i \in 1..Len(tx') :
             tx'[i] = IF device_id = 0 THEN <<64, 48, 49, 48, 13>>
                      ELSE <<64, 49, 50, 49, 48, 13>>
     /\ (call'.name = "get_pos" /\ tx' # <<>>) =>
          \A i \in 1..Len(tx') :
             tx'[i] = IF device_id = 0 THEN <<64, 48, 80, 13>>
                      ELSE <<64, 49, 50, 80, 13>>
     /\ (Len(tx') > Len(tx) /\ call'.name \notin {"cmd_stop", "cmd_reset", "cmd_break"}) =>
          /\ tx' = Append(tx, encode_ascii(<<"@">> \o Dec(device_id) \o <<dnc'.cmd>>
                                            \o dnc'.arg \o <<CR>>))
          /\ ev'[Len(ev')] = "write"
          /\ now' = 0 /\ time0' = 0
     /\ (pc = "wait" /\ timeouts' = timeouts + 1 /\ pc' = "wait") =>
          /\ dnc' = [dnc EXCEPT !.retry_attempts = dnc.retry_attempts - 1]
          /\ call' = call
          /\ tx' = Append(tx, tx[Len(tx)])]_vars

C13_Witness ==
  /\ call.name = "send_dnc_cmd" /\ device_id = 0 /\ pc = "wait"
  /\ timeouts = 2 /\ dnc.retry_attempts = 0
  /\ tx = << <<64, 48, 49, 48, 13>>, <<64, 48, 49, 48, 13>>, <<64, 48, 49, 48, 13>> >>

C15_WritesAndBudget ==
  [][/\ (call'.name = "send_dnc_cmd" /\ tx' # <<>>) =>
          /\ 1 <= Len(tx') /\ Len(tx') <= call'.retry_attempts + 1
          /\ 0 <= dnc'.retry_attempts
          /\ dnc'.retry_attempts <= call'.retry_attempts
          /\ call'.blocking =>
               Len(tx') = 1 + timeouts'
                          - (IF result'.kind = "ConnectionError" THEN 1 ELSE 0)
          /\ ~call'.blocking => (Len(tx') = 1 /\ timeouts' = 0)
     /\ (call.name = "send_dnc_cmd" /\ pc = "wait" /\ call' = call) =>
          /\ dnc'.retry_attempts <= dnc.retry_attempts
          /\ Len(tx') >= Len(tx)
          /\ timeouts' >= timeouts]_vars

C15_Witness ==
  /\ call.name = "send_dnc_cmd" /\ call.retry_attempts = 2 /\ pc = "done"
  /\ Len(tx) = 2 /\ timeouts = 1 /\ dnc.retry_attempts = 1
  /\ result.kind = "Exception"

\* C16: a move_relative call has written its 'a' frame exactly once, whatever
\* the channel does: its budget is 0, so the first acknowledgement timeout of
\* a blocking relative move ends it with ConnectionError and no second frame.
C16_RelativeMoveSentOnce ==
  (call.name = "move_relative" /\ tx # <<>>) =>
    /\ Len(tx) = 1
    /\ tx[1] = WireFrame("a", Dec(call.position * steps_per_meter) \o <<",">>
                              \o Dec(call.velocity * steps_per_meter))
    /\ dnc.cmd = "a" /\ dnc.retry_attempts = 0
    /\ timeouts <= 1
    /\ timeouts = 1 <=> result.kind = "ConnectionError"
    /\ timeouts = 1 => pc = "done"
    /\ ~call.blocking => (pc = "done" /\ timeouts = 0)

C16_Witness ==
  /\ call.name = "move_relative" /\ call.blocking /\ call.position = 0 - 1
  /\ pc = "done" /\ result.kind = "ConnectionError"
  /\ Len(tx) = 1 /\ timeouts = 1 /\ now >= 6

\* C17: a blocking send_dnc_cmd with a finite timeout and its finite retry
\* budget terminates, with a payload or a failure, whatever the channel
\* delivers (nothing at all, empty reads, blank lines), given that every
\* readline() returns and the clock moves on.
C17_Terminates ==
  (pc = "wait" /\ call.name = "send_dnc_cmd" /\ call.timeout # None)
    ~> (pc = "done" /\ call.name = "send_dnc_cmd"
        /\ result.kind \in {"str", "Exception", "ConnectionError"})

C17_Witness ==
  /\ call.name = "send_dnc_cmd" /\ call.timeout = <<2>>
  /\ call.retry_attempts = 1 /\ pc = "done"
  /\ result.kind = "ConnectionError" /\ timeouts = 2 /\ rec = <<>>

\* C18: with timeout None the waiter has no deadline: an empty read keeps it
\* polling, a '0' line ends it with the payload, any other line with the
\* device's error; it ends in no other failure and causes no retry.
C18_NoDeadlineWithoutTimeout ==
  [][(pc = "wait" /\ dnc.timeout = None /\ Len(rx') <= Len(rx)) =>
       /\ receive_string = <<>> => (pc' = "wait" /\ result' = Pending)
       /\ (receive_string # <<>> /\ receive_string[1] = "0") =>
            (pc' = "done" /\ result' = Result("str", Tail(receive_string), 0))
       /\ (receive_string # <<>> /\ receive_string[1] # "0") =>
            (pc' = "done" /\ result' = Result("Exception", <<receive_string[1]>>, 0))
       /\ tx' = tx /\ timeouts' = timeouts]_vars

===========================================================================
